---- MODULE Spec2Model ----
(***************************************************************************)
(* Model of the problem-assembly and control-horizon mapping subsystem of  *)
(* libmpc: Mapping (Mapping.hpp), ProblemBuilder (ProblemBuilder.hpp),     *)
(* NLOptimizer (NLOptimizer.hpp) and the linear front-end LMPC (LMPC.hpp). *)
(*                                                                         *)
(* Numbers.  The Mapping and the nonlinear optimizer divide by scaling     *)
(* factors, so their numbers are exact rationals <<n, d>> (d > 0, lowest   *)
(* terms).  The ProblemBuilder only adds and multiplies, so its matrices   *)
(* hold integers; its bound vectors also hold -inf/+inf and are made of    *)
(* extended values <<k, v>> (k = 0: the finite value v, k = 1: +inf,       *)
(* k = -1: -inf).                                                          *)
(*                                                                         *)
(* Matrices are sequences of rows; offsets passed to the block operators   *)
(* are 0-based as in the source.                                           *)
(***************************************************************************)
EXTENDS Integers, Sequences, FiniteSets, TLC

(* ------------------------------ bounds -------------------------------- *)
\* largest state / input dimension explored
MaxN == 2
\* largest prediction horizon explored
MaxPh == 3
\* largest number of ProblemBuilder setter and get calls in one behaviour
MaxCalls == 3
\* largest number of NLOptimizer::run calls in one behaviour
MaxRuns == 3

(* --------------------------- exact rationals -------------------------- *)
Abs(x) == IF x < 0 THEN -x ELSE x

RECURSIVE GCD(_, _)
GCD(a, b) == IF b = 0 THEN a ELSE GCD(b, a % b)

RNorm(n, d) ==
    LET g == GCD(Abs(n), Abs(d))
        s == IF d < 0 THEN -1 ELSE 1
    IN  <<(s * n) \div g, (s * d) \div g>>

R(i) == <<i, 1>>
RAdd(a, b) ==
    IF a[1] = 0 THEN b
    ELSE IF b[1] = 0 THEN a
    ELSE RNorm(a[1] * b[2] + b[1] * a[2], a[2] * b[2])
RMul(a, b) ==
    IF a[1] = 0 \/ b[1] = 0 THEN <<0, 1>> ELSE RNorm(a[1] * b[1], a[2] * b[2])
RInv(a) == RNorm(a[2], a[1])
RDiv(a, b) == RMul(a, RInv(b))

RECURSIVE RSum(_, _, _)
\* sum of f(k) for k in lo..hi
RSum(f(_), lo, hi) == IF lo > hi THEN R(0) ELSE RAdd(f(lo), RSum(f, lo + 1, hi))

(* ------------------------ vectors and matrices ------------------------ *)
RECURSIVE MkVecRec(_, _)
MkVecRec(f(_), n) == IF n <= 0 THEN <<>> ELSE Append(MkVecRec(f, n - 1), f(n))

\* the vector <<f(1), ..., f(n)>>
MkVec(n, f(_)) == MkVecRec(f, n)

\* the r x c matrix with entries f(i, j)
MkMat(r, c, f(_, _)) ==
    LET row(i) == LET e(j) == f(i, j) IN MkVec(c, e) IN MkVec(r, row)

Rows(M) == Len(M)
Cols(M) == IF Len(M) = 0 THEN 0 ELSE Len(M[1])

RZeros(r, c) == MkVec(r, LAMBDA i : MkVec(c, LAMBDA j : R(0)))
ROnes(n) == MkVec(n, LAMBDA i : R(1))
Transpose(M) == MkVec(Cols(M), LAMBDA j : MkVec(Rows(M), LAMBDA i : M[i][j]))

\* M.block(r0, c0, Rows(B), Cols(B)) = B
SetBlock(M, r0, c0, B) ==
    MkVec(Rows(M), LAMBDA i : MkVec(Cols(M), LAMBDA j :
        IF i > r0 /\ i <= r0 + Rows(B) /\ j > c0 /\ j <= c0 + Cols(B)
        THEN B[i - r0][j - c0] ELSE M[i][j]))

\* M.block(r0, c0, r, c)
Block(M, r0, c0, r, c) == MkVec(r, LAMBDA i : MkVec(c, LAMBDA j : M[r0 + i][c0 + j]))

\* matrix * column vector
RMatVec(M, v) ==
    MkVec(Rows(M), LAMBDA i : LET t(k) == RMul(M[i][k], v[k]) IN RSum(t, 1, Len(v)))

\* v.middleRows(start, n)
MiddleRows(v, start, n) == MkVec(n, LAMBDA i : v[start + i])

(* -------------------------- integer matrices -------------------------- *)
RECURSIVE ISum(_, _, _)
\* sum of f(k) for k in lo..hi
ISum(f(_), lo, hi) == IF lo > hi THEN 0 ELSE f(lo) + ISum(f, lo + 1, hi)

IZeros(r, c) == MkVec(r, LAMBDA i : MkVec(c, LAMBDA j : 0))
IZeroVec(n) == MkVec(n, LAMBDA i : 0)
Identity(n) == MkVec(n, LAMBDA i : MkVec(n, LAMBDA j : IF i = j THEN 1 ELSE 0))
IDiag(v) == MkVec(Len(v), LAMBDA i : MkVec(Len(v), LAMBDA j : IF i = j THEN v[i] ELSE 0))
INeg(M) == MkVec(Rows(M), LAMBDA i : MkVec(Cols(M), LAMBDA j : -M[i][j]))
INegVec(v) == MkVec(Len(v), LAMBDA i : -v[i])
IAddVec(v, w) == MkVec(Len(v), LAMBDA i : v[i] + w[i])
IMatVec(M, v) ==
    MkVec(Rows(M), LAMBDA i : LET t(k) == M[i][k] * v[k] IN ISum(t, 1, Len(v)))
IMatMul(M, N) ==
    MkVec(Rows(M), LAMBDA i : MkVec(Cols(N), LAMBDA j :
        LET t(k) == M[i][k] * N[k][j] IN ISum(t, 1, Rows(N))))

\* M.col(j), j 0-based
Col(M, j) == MkVec(Rows(M), LAMBDA i : M[i][j + 1])

\* extended values of the bound vectors
Fin(v) == <<0, v>>
PosInf == <<1, 0>>
NegInf == <<-1, 0>>
FinVec(v) == MkVec(Len(v), LAMBDA i : Fin(v[i]))
\* e - v for a finite v
ExtSub(e, v) == IF e[1] = 0 THEN <<0, e[2] - v>> ELSE e

VARIABLES
    dim,                    \* the dimension descriptor (nx, nu, ndu, ny, ph, ch)
    aborted,                \* a checkOrQuit guard has stopped the program
    \* ---- Mapping
    mInit,                  \* Mapping: initialize() has run
    input_scaling, state_scaling, inverse_state_scaling,
    Iz2uMat, Iu2zMat, Sz2uMat, Su2zMat,
    computeRan,             \* the last call that stored a scaling also ran computeMapping
    uwArgs,                 \* arguments (and scalings in force) of the last unwrapVector call
    Xmat, Umat, slack,      \* out-parameters of the last unwrapVector call
    \* ---- ProblemBuilder
    bInit,                  \* ProblemBuilder: initialize() has run
    ssA, ssB, ssC, ssBv, ssDv,
    wOutput, wU, wDeltaU,
    minX, maxX, minY, maxY, minU, maxU,
    leq, ueq, lineq, uineq,
    mpcProblem,             \* the Problem bundle [P, q, A, l, u]
    getArgs,                \* arguments of the last get call
    modelArgs,              \* arguments of the last setStateModel call
    tiBuilt,                \* buildTITerms has run at least once
    nCalls,                 \* number of setter and get calls so far
    \* ---- NLOptimizer (its mapping member is held in the Mapping variables)
    nlInit,                 \* NLOptimizer: initialize() has run
    innerOpt,               \* configuration of the inner solver
    lastParam,              \* the parameters of the most recent setParameters call
    last_r,                 \* the stored result
    currentSlack,           \* the last-known slack
    runResult,              \* the result r returned by the last run
    optX0,                  \* the warm start handed to the solver by the last run
    runArgs,                \* arguments of the last run
    escaped,                \* an exception of the last run reached the caller
    goodCmd,                \* the command of the most recent successful run
    goodSlack,              \* the slack of the most recent successful run
    failStreak,             \* number of failed runs since the last success
    nRuns,                  \* number of runs so far
    \* ---- LMPC (its builder member is held in the ProblemBuilder variables)
    lInit,                  \* LMPC: setup has run
    optPtr,                 \* the optimizer the front-end points to
    raised                  \* what() of the exception a front-end call has thrown

mapVars == <<mInit, input_scaling, state_scaling, inverse_state_scaling,
             Iz2uMat, Iu2zMat, Sz2uMat, Su2zMat, computeRan, uwArgs, Xmat, Umat,
             slack>>
modelVars == <<ssA, ssB, ssC>>
distVars == <<ssBv, ssDv>>
weightVars == <<wOutput, wU, wDeltaU>>
boundVars == <<minX, maxX, minY, maxY, minU, maxU>>
stepVars == <<leq, ueq, getArgs>>
ghostVars == <<modelArgs, tiBuilt>>
bldVars == <<bInit, modelVars, distVars, weightVars, boundVars, stepVars,
             lineq, uineq, mpcProblem, nCalls, ghostVars>>
nlVars == <<nlInit, innerOpt, lastParam, last_r, currentSlack, runResult, optX0, runArgs,
            escaped, goodCmd, goodSlack, failStreak, nRuns>>
lmVars == <<lInit, optPtr, raised>>
vars == <<dim, aborted, mapVars, bldVars, nlVars, lmVars>>

\* length of the flat decision vector: ph*nx + nu*ch + 1
FlatLen == (dim.ph * dim.nx) + (dim.nu * dim.ch) + 1

(* ------------------------------ inputs -------------------------------- *)
Dims ==
    {[nx |-> a, nu |-> b, ndu |-> 1, ny |-> 1, ph |-> p, ch |-> c] :
        a \in 1..MaxN, b \in 1..MaxN, p \in 1..MaxPh, c \in 1..MaxPh}

ValidDims == {d \in Dims : d.ch <= d.ph}

\* scaling vectors: uniform ones and one that differs per channel
ScalingVecs(n) ==
    {MkVec(n, LAMBDA i : R(2)), MkVec(n, LAMBDA i : <<i + 1, 5>>)}

\* the state scaling handed to Mapping::setStateScaling: a different factor
\* for every channel, none of them 1
StateScalingVecs(n) == {MkVec(n, LAMBDA i : R(i + 1))}

\* flat decision vectors with pairwise distinct entries
FlatVecs(n) == {MkVec(n, LAMBDA k : R(a + k)) : a \in {0, 10}}

StateVecs(n) == {MkVec(n, LAMBDA i : R(-i))}

\* flat vectors whose length is not ph*nx + nu*ch + 1: two rows short and one
\* row long
MismatchedFlatVecs ==
    {MkVec(n, LAMBDA k : R(20 + k)) : n \in {FlatLen - 2, FlatLen + 1}}

(* ------------------------------ Mapping ------------------------------- *)
\* a replication vector whose last entry misses the held tail
ReplicationCounts_NoTail == [i \in 0..(dim.ch - 1) |-> 1]

\* replication counts: 1 for every control-horizon block, ph-ch+1 for the last
ReplicationCounts ==
    [i \in 0..(dim.ch - 1) |-> IF i = dim.ch - 1 THEN dim.ph - dim.ch + 1 ELSE 1]

Diag(v) == MkVec(Len(v), LAMBDA i : MkVec(Len(v), LAMBDA j : IF i = j THEN v[i] ELSE R(0)))
\* an inverse scaling block that holds the scaling itself
DiagInv_NoInverse(v) ==
    MkVec(Len(v), LAMBDA i : MkVec(Len(v), LAMBDA j : IF i = j THEN v[i] ELSE R(0)))

DiagInv(v) ==
    MkVec(Len(v), LAMBDA i : MkVec(Len(v), LAMBDA j : IF i = j THEN RDiv(R(1), v[i]) ELSE R(0)))

RECURSIVE FillIz2u(_, _, _, _, _, _)
\* inner loop: j < m[i] blocks of Sz2u below each other, from row offset jx
FillIz2u(j, mi, jx, ix, Iz, Sz) ==
    IF j >= mi THEN <<Iz, jx>>
    ELSE FillIz2u(j + 1, mi, jx + dim.nu, ix, SetBlock(Iz, jx, ix, Sz), Sz)

RECURSIVE MappingLoop(_, _, _, _, _, _, _, _)
MappingLoop(i, ix, jx, Iz, Iu, m, Sz, Su) ==
    IF i >= dim.ch THEN <<Iz, Iu>>
    ELSE LET Iu1 == SetBlock(Iu, ix, jx, Su)
             in1 == FillIz2u(0, m[i], jx, ix, Iz, Sz)
         IN  MappingLoop(i + 1, ix + dim.nu, in1[2], in1[1], Iu1, m, Sz, Su)

\* a computeMapping whose Iu2z stays the transpose taken before the fill
computeMapping_Iu2zUnfilled(scaling) ==
    LET m == ReplicationCounts
        Iz0 == RZeros(dim.ph * dim.nu, dim.nu * dim.ch)
        Iu0 == Transpose(Iz0)
        Sz == Diag(scaling)
        Su == DiagInv(scaling)
        res == MappingLoop(0, 0, 0, Iz0, Iu0, m, Sz, Su)
    IN  <<res[1], Iu0, Sz, Su>>

\* the matrices computeMapping leaves behind for an input scaling:
\* <<Iz2uMat, Iu2zMat, Sz2uMat, Su2zMat>>
computeMapping(scaling) ==
    LET m == ReplicationCounts
        Iz0 == RZeros(dim.ph * dim.nu, dim.nu * dim.ch)
        Iu0 == Transpose(Iz0)
        Sz == Diag(scaling)
        Su == DiagInv(scaling)
        res == MappingLoop(0, 0, 0, Iz0, Iu0, m, Sz, Su)
    IN  <<res[1], res[2], Sz, Su>>

\* Mapping::onInit, reached through initialize()
Mapping_onInit ==
    /\ ~aborted /\ ~mInit
    /\ mInit' = TRUE
    /\ input_scaling' = ROnes(dim.nu)
    /\ state_scaling' = ROnes(dim.nx)
    /\ inverse_state_scaling' = ROnes(dim.nx)
    /\ LET cm == computeMapping(ROnes(dim.nu))
       IN  /\ Iz2uMat' = cm[1] /\ Iu2zMat' = cm[2]
           /\ Sz2uMat' = cm[3] /\ Su2zMat' = cm[4]
    /\ computeRan' = TRUE
    /\ UNCHANGED <<dim, aborted, uwArgs, Xmat, Umat, slack, bldVars, nlVars, lmVars>>

\* Mapping::setInputScaling: no guard, stores the scaling and recomputes
Mapping_setInputScaling(scaling) ==
    /\ ~aborted
    /\ input_scaling' = scaling
    /\ LET cm == computeMapping(scaling)
       IN  /\ Iz2uMat' = cm[1] /\ Iu2zMat' = cm[2]
           /\ Sz2uMat' = cm[3] /\ Su2zMat' = cm[4]
    /\ computeRan' = TRUE
    /\ UNCHANGED <<dim, aborted, mInit, state_scaling, inverse_state_scaling,
                   uwArgs, Xmat, Umat, slack, bldVars, nlVars, lmVars>>

cwiseInverse(v) == MkVec(Len(v), LAMBDA i : RDiv(R(1), v[i]))

\* Mapping::setStateScaling: no guard, stores the scaling and its inverse;
\* computeMapping is not called
Mapping_setStateScaling(scaling) ==
    /\ ~aborted
    /\ state_scaling' = scaling
    /\ inverse_state_scaling' = cwiseInverse(scaling)
    /\ computeRan' = FALSE
    /\ UNCHANGED <<dim, aborted, mInit, input_scaling, Iz2uMat, Iu2zMat, Sz2uMat,
                   Su2zMat, uwArgs, Xmat, Umat, slack, bldVars, nlVars, lmVars>>

\* a row-major reading of the same buffer
MapColMajor_RowMajor(v, r, c) == MkVec(r, LAMBDA i : MkVec(c, LAMBDA j : v[(i - 1) * c + j]))

\* Eigen::Map<mat<nu, ph>>(tmp_mult.data(), nu, ph): column-major reshape
MapColMajor(v, r, c) == MkVec(r, LAMBDA i : MkVec(c, LAMBDA j : v[(j - 1) * r + i]))

\* the input trajectory unwrapVector builds from the flat vector x
UnwrapU(x) ==
    LET u_vec == MiddleRows(x, dim.ph * dim.nx, dim.nu * dim.ch)
        tmp_mult == RMatVec(Iz2uMat, u_vec)
        tmp_mapped == MapColMajor(tmp_mult, dim.nu, dim.ph)
        tr == Transpose(tmp_mapped)
    IN  MkVec(dim.ph + 1, LAMBDA i : IF i <= dim.ph THEN tr[i] ELSE tr[dim.ph])

\* the state trajectory unwrapVector builds from the flat vector x and x0
UnwrapX(x, x0) ==
    LET raw == MkVec(dim.ph + 1, LAMBDA i :
                   IF i = 1 THEN x0 ELSE MiddleRows(x, (i - 2) * dim.nx, dim.nx))
    IN  MkVec(dim.ph + 1, LAMBDA i : MkVec(dim.nx, LAMBDA j :
            RDiv(raw[i][j], RDiv(R(1), state_scaling[j]))))

\* how the reads of unwrapVector end when the flat vector is too short for
\* them: Eigen's range assertion stops the program, or, with the assertions
\* compiled out, the read past the end yields whatever lies there
OutOfRangeReads ==
    {[assert |-> TRUE, value |-> R(0)], [assert |-> FALSE, value |-> R(7)]}

\* the reads of unwrapVector never leave a vector of at least ph*nx + nu*ch rows
InRangeRead == {[assert |-> FALSE, value |-> R(0)]}

\* the rows 0 .. ph*nx + nu*ch - 1 of the flat vector as unwrapVector reads
\* them, a read past the end giving g
ReadFlat(x, g) ==
    MkVec(FlatLen - 1, LAMBDA k : IF k <= Len(x) THEN x[k] ELSE g)

\* Mapping::unwrapVector: the length of x is not compared with
\* ph*nx + nu*ch + 1; the blocks are read at their offsets and the slack is
\* x(x.size() - 1)
Mapping_unwrapVector(x, x0) ==
    /\ ~aborted
    /\ \E o \in (IF Len(x) < FlatLen - 1 THEN OutOfRangeReads ELSE InRangeRead) :
          IF ~mInit \/ o.assert
          THEN /\ aborted' = TRUE
               /\ UNCHANGED <<uwArgs, Xmat, Umat, slack>>
          ELSE /\ Umat' = UnwrapU(ReadFlat(x, o.value))
               /\ Xmat' = UnwrapX(ReadFlat(x, o.value), x0)
               /\ slack' = x[Len(x)]
               /\ uwArgs' = [x |-> x, x0 |-> x0, input_scaling |-> input_scaling,
                              state_scaling |-> state_scaling]
               /\ UNCHANGED aborted
    /\ UNCHANGED <<dim, mInit, input_scaling, state_scaling, inverse_state_scaling,
                   Iz2uMat, Iu2zMat, Sz2uMat, Su2zMat, computeRan, bldVars, nlVars,
                   lmVars>>

(* --------------------------- ProblemBuilder --------------------------- *)
\* The size operators below are bound to local names (ns, nz, ...) where a
\* matrix is built entry by entry, so that they are evaluated once per matrix.

\* size of the augmented state (nx + nu)
NZ == dim.nu + dim.nx
\* rows of the stacked augmented states ((ph + 1) * (nu + nx))
NS == (dim.ph + 1) * NZ
\* rows of the stacked outputs ((ph + 1) * ny)
NY == (dim.ph + 1) * dim.ny
\* rows of the stacked increments (ph * nu)
ND == dim.ph * dim.nu

\* an extended weight with the sign of every weight flipped
ExtendedWeight_Negated(wO, wI, i) == IDiag(INegVec(Col(wO, i) \o Col(wI, i)))

\* diag(wOutput.col(i), wU.col(i)) as built in wExtendedState
ExtendedWeight(wO, wI, i) == IDiag(Col(wO, i) \o Col(wI, i))

\* entry (i, j), 1-based, of Eigen::kroneckerProduct(M, N)
KronAt(M, N, i, j) ==
    IF M[((i - 1) \div Rows(N)) + 1][((j - 1) \div Cols(N)) + 1] = 0
    THEN 0
    ELSE M[((i - 1) \div Rows(N)) + 1][((j - 1) \div Cols(N)) + 1]
             * N[((i - 1) % Rows(N)) + 1][((j - 1) % Cols(N)) + 1]

\* P as buildTITerms fills it: zero, then for every step i = 0..ph the block
\* ssC' * wExtendedState * ssC at (i*NZ, i*NZ) and, for i < ph, the block
\* diag(wDeltaU.col(i)) at (NS + i*nu, NS + i*nu)
BuildP(sC, wO, wI, wD) ==
    LET sCt == Transpose(sC)
        blk == MkVec(dim.ph + 1, LAMBDA k :
                   IMatMul(IMatMul(sCt, ExtendedWeight(wO, wI, k - 1)), sC))
        ns == NS
        nz == NZ
        nu == dim.nu
        ph == dim.ph
    IN  MkMat(NS + ND, NS + ND, LAMBDA r, c :
            IF r <= ns /\ c <= ns
            THEN IF (r - 1) \div nz = (c - 1) \div nz
                 THEN blk[((r - 1) \div nz) + 1][((r - 1) % nz) + 1][((c - 1) % nz) + 1]
                 ELSE 0
            ELSE IF r > ns /\ c > ns
                    /\ (r - ns - 1) \div nu = (c - ns - 1) \div nu
                    /\ (r - ns - 1) \div nu < ph
                 THEN IF r = c
                      THEN wD[((r - ns - 1) % nu) + 1][((r - ns - 1) \div nu) + 1]
                      ELSE 0
                 ELSE 0)

\* augId / idenBd: zero with an identity block of size ph at (1, 0)
ShiftId(r, c) == SetBlock(IZeros(r, c), 1, 0, Identity(dim.ph))

\* the equality part of A:
\* [kron(predHId, -extSpaceId) + kron(augId, ssA) | kron(idenBd, ssB)]
BuildAeq(sA, sB) ==
    LET predHId == Identity(dim.ph + 1)
        augId == ShiftId(dim.ph + 1, dim.ph + 1)
        negExtSpaceId == INeg(Identity(NZ))
        idenBd == ShiftId(dim.ph + 1, dim.ph)
        ns == NS
    IN  MkMat(NS, NS + ND, LAMBDA i, j :
            IF j <= ns
            THEN KronAt(predHId, negExtSpaceId, i, j) + KronAt(augId, sA, i, j)
            ELSE KronAt(idenBd, sB, i, j - ns))

\* the inequality part of A: the identity over the augmented states, then
\* kron(predHId, ssC.middleRows(0, ny)), then the identity over the increments
BuildAineq(sC) ==
    LET predHId == Identity(dim.ph + 1)
        sCy == Block(sC, 0, 0, dim.ny, NZ)
        ns == NS
        ny == NY
    IN  MkMat(NS + NY + ND, NS + ND, LAMBDA i, j :
            IF i <= ns THEN (IF j = i THEN 1 ELSE 0)
            ELSE IF i <= ns + ny
                 THEN (IF j <= ns THEN KronAt(predHId, sCy, i - ns, j) ELSE 0)
                 ELSE (IF j = ns + (i - ns - ny) THEN 1 ELSE 0))

\* eMinX / eMaxX: per step the state bound followed by the input bound, the
\* last step re-using the last input column
ExtendedBound(bX, bU) ==
    MkVec(NS, LAMBDA k :
        LET i == (k - 1) \div NZ
            r == ((k - 1) % NZ) + 1
            tmpU == IF i = dim.ph THEN Col(bU, i - 1) ELSE Col(bU, i)
        IN  (Col(bX, i) \o tmpU)[r])

\* Eigen::Map<cvec>(M.data(), rows * cols): the columns of M one after another
Vectorize(M) == MkVec(Rows(M) * Cols(M), LAMBDA k :
                    M[((k - 1) % Rows(M)) + 1][((k - 1) \div Rows(M)) + 1])

\* bound of the increments of step i: (i > ch) ? 0.0 : -inf / +inf
RateBound(i, free) == IF i > dim.ch THEN Fin(0) ELSE free

\* lineq / uineq as buildTITerms leaves them
BuildIneqBound(bX, bU, bY, free) ==
    FinVec(ExtendedBound(bX, bU)) \o FinVec(Vectorize(bY))
        \o MkVec(ND, LAMBDA k : RateBound((k - 1) \div dim.nu, free))

\* ProblemBuilder::buildTITerms, run on the model, weights and bounds given: it
\* overwrites P, A, lineq and uineq
buildTITerms(sA, sB, sC, wO, wI, wD, mnX, mxX, mnY, mxY, mnU, mxU) ==
    /\ mpcProblem' = [mpcProblem EXCEPT !.P = BuildP(sC, wO, wI, wD),
                                        !.A = BuildAeq(sA, sB) \o BuildAineq(sC)]
    /\ lineq' = BuildIneqBound(mnX, mnU, mnY, NegInf)
    /\ uineq' = BuildIneqBound(mxX, mxU, mxY, PosInf)
    /\ tiBuilt' = TRUE

\* ProblemBuilder::onInit: everything is sized from the dimensions and zeroed
Builder_onInitBody ==
    /\ bInit' = TRUE
    /\ ssA' = IZeros(NZ, NZ)
    /\ ssB' = IZeros(NZ, dim.nu)
    /\ ssC' = IZeros(dim.nu + dim.ny, NZ)
    /\ ssBv' = IZeros(NZ, dim.ndu)
    /\ ssDv' = IZeros(dim.nu + dim.ny, dim.ndu)
    /\ wOutput' = IZeros(dim.ny, dim.ph + 1)
    /\ wU' = IZeros(dim.nu, dim.ph + 1)
    /\ wDeltaU' = IZeros(dim.nu, dim.ph)
    /\ minX' = IZeros(dim.nx, dim.ph + 1) /\ maxX' = IZeros(dim.nx, dim.ph + 1)
    /\ minY' = IZeros(dim.ny, dim.ph + 1) /\ maxY' = IZeros(dim.ny, dim.ph + 1)
    /\ minU' = IZeros(dim.nu, dim.ph) /\ maxU' = IZeros(dim.nu, dim.ph)
    /\ leq' = IZeroVec(NS) /\ ueq' = IZeroVec(NS)
    /\ lineq' = FinVec(IZeroVec(NS + NY + ND))
    /\ uineq' = FinVec(IZeroVec(NS + NY + ND))
    /\ mpcProblem' = [P |-> IZeros(NS + ND, NS + ND),
                      q |-> IZeroVec(NS + ND),
                      A |-> IZeros(NS + NS + NY + ND, NS + ND),
                      l |-> FinVec(IZeroVec(NS + NS + NY + ND)),
                      u |-> FinVec(IZeroVec(NS + NS + NY + ND))]
    /\ UNCHANGED <<getArgs, modelArgs, tiBuilt, nCalls>>

\* ProblemBuilder::initialize() on a builder of its own
Builder_onInit ==
    /\ ~aborted /\ ~bInit
    /\ Builder_onInitBody
    /\ UNCHANGED <<dim, aborted, mapVars, nlVars, lmVars>>

\* a setter stopped by checkOrQuit
BuilderGuardStop ==
    /\ aborted' = TRUE
    /\ UNCHANGED <<dim, bldVars, mapVars, nlVars, lmVars>>

\* an augmented ssA whose carried-input block is left zero
AugmentA_NoCarry(A, B) ==
    SetBlock(SetBlock(IZeros(NZ, NZ), 0, 0, A), 0, dim.nx, B)

\* ssA after setStateModel: [A B; 0 I]
AugmentA(A, B) ==
    SetBlock(SetBlock(SetBlock(SetBlock(ssA, 0, 0, A), 0, dim.nx, B),
                      dim.nx, 0, IZeros(dim.nu, dim.nx)),
             dim.nx, dim.nx, Identity(dim.nu))

\* ssB after setStateModel: [B; I]
AugmentB(B) == SetBlock(SetBlock(ssB, 0, 0, B), dim.nx, 0, Identity(dim.nu))

\* ssC after setStateModel: [C 0; 0 I] (only the two diagonal blocks are written)
AugmentC(C) == SetBlock(SetBlock(ssC, 0, 0, C), dim.ny, dim.nx, Identity(dim.nu))

\* ProblemBuilder::setStateModel
Builder_setStateModel(A, B, C) ==
    /\ ~aborted /\ nCalls < MaxCalls
    /\ IF ~bInit THEN BuilderGuardStop
       ELSE /\ ssA' = AugmentA(A, B)
            /\ ssB' = AugmentB(B)
            /\ ssC' = AugmentC(C)
            /\ modelArgs' = [A |-> A, B |-> B, C |-> C]
            /\ buildTITerms(ssA', ssB', ssC', wOutput, wU, wDeltaU,
                            minX, maxX, minY, maxY, minU, maxU)
            /\ nCalls' = nCalls + 1
            /\ UNCHANGED <<dim, aborted, bInit, distVars, weightVars, boundVars,
                           stepVars, mapVars, nlVars, lmVars>>

\* a disturbance matrix zero-extended to r rows
ZeroExtend(M, r) == SetBlock(IZeros(r, dim.ndu), 0, 0, M)

\* ProblemBuilder::setExogenuosInput
Builder_setExogenuosInput(B, D) ==
    /\ ~aborted /\ nCalls < MaxCalls
    /\ IF ~bInit THEN BuilderGuardStop
       ELSE /\ ssBv' = ZeroExtend(B, NZ)
            /\ ssDv' = ZeroExtend(D, dim.nu + dim.ny)
            /\ buildTITerms(ssA, ssB, ssC, wOutput, wU, wDeltaU,
                            minX, maxX, minY, maxY, minU, maxU)
            /\ nCalls' = nCalls + 1
            /\ UNCHANGED <<dim, aborted, bInit, modelVars, weightVars, boundVars,
                           stepVars, modelArgs, mapVars, nlVars, lmVars>>

\* a setObjective that stores the weights and returns without the rebuild
Builder_setObjective_NoRebuild(OWeight, UWeight, DeltaUWeight) ==
    /\ ~aborted /\ nCalls < MaxCalls
    /\ IF ~bInit THEN BuilderGuardStop
       ELSE /\ wOutput' = OWeight
            /\ wU' = UWeight
            /\ wDeltaU' = DeltaUWeight
            /\ tiBuilt' = TRUE
            /\ nCalls' = nCalls + 1
            /\ UNCHANGED <<dim, aborted, bInit, modelVars, distVars, boundVars,
                           stepVars, modelArgs, lineq, uineq, mpcProblem,
                           mapVars, nlVars, lmVars>>

\* ProblemBuilder::setObjective
Builder_setObjective(OWeight, UWeight, DeltaUWeight) ==
    /\ ~aborted /\ nCalls < MaxCalls
    /\ IF ~bInit THEN BuilderGuardStop
       ELSE /\ wOutput' = OWeight
            /\ wU' = UWeight
            /\ wDeltaU' = DeltaUWeight
            /\ buildTITerms(ssA, ssB, ssC, wOutput', wU', wDeltaU',
                            minX, maxX, minY, maxY, minU, maxU)
            /\ nCalls' = nCalls + 1
            /\ UNCHANGED <<dim, aborted, bInit, modelVars, distVars, boundVars,
                           stepVars, modelArgs, mapVars, nlVars, lmVars>>

\* the stored bound: columns 1..ph from the argument, column 0 its first column
WithStepZero(stored, M) ==
    MkVec(Rows(stored), LAMBDA i : MkVec(Cols(stored), LAMBDA j :
        IF j = 1 THEN M[i][1] ELSE M[i][j - 1]))

\* ProblemBuilder::setConstraints
Builder_setConstraints(XMin, UMin, YMin, XMax, UMax, YMax) ==
    /\ ~aborted /\ nCalls < MaxCalls
    /\ IF ~bInit THEN BuilderGuardStop
       ELSE /\ minX' = WithStepZero(minX, XMin)
            /\ maxX' = WithStepZero(maxX, XMax)
            /\ minY' = WithStepZero(minY, YMin)
            /\ maxY' = WithStepZero(maxY, YMax)
            /\ minU' = UMin
            /\ maxU' = UMax
            /\ buildTITerms(ssA, ssB, ssC, wOutput, wU, wDeltaU,
                            minX', maxX', minY', maxY', minU', maxU')
            /\ nCalls' = nCalls + 1
            /\ UNCHANGED <<dim, aborted, bInit, modelVars, distVars, weightVars,
                           stepVars, modelArgs, mapVars, nlVars, lmVars>>

RECURSIVE StackRec(_, _)
StackRec(f(_), n) == IF n <= 0 THEN <<>> ELSE StackRec(f, n - 1) \o f(n - 1)

\* the blocks f(0), ..., f(n - 1) one after another
Stack(n, f(_)) == StackRec(f, n)

\* a q that is not zeroed first: the blocks are added to what q held
GetQ_Accumulating(yRef, uRef, deltaURef, uMeas) ==
    LET eRef == yRef \o uRef
        rhs == IAddVec(INegVec(eRef), IMatVec(ssDv, uMeas))
        sCt == Transpose(ssC)
        zblock(i) == IMatVec(IMatMul(sCt, ExtendedWeight(wOutput, wU, i)), rhs)
        dblock(i) == INegVec(IMatVec(IDiag(Col(wDeltaU, i)), deltaURef))
    IN  IAddVec(mpcProblem.q, Stack(dim.ph + 1, zblock) \o Stack(dim.ph, dblock))

\* q as get computes it: per step the block over the augmented state, then per
\* step the block over the increments
GetQ(yRef, uRef, deltaURef, uMeas) ==
    LET eRef == yRef \o uRef
        rhs == IAddVec(INegVec(eRef), IMatVec(ssDv, uMeas))
        sCt == Transpose(ssC)
        zblock(i) == IMatVec(IMatMul(sCt, ExtendedWeight(wOutput, wU, i)), rhs)
        dblock(i) == INegVec(IMatVec(IDiag(Col(wDeltaU, i)), deltaURef))
    IN  Stack(dim.ph + 1, zblock) \o Stack(dim.ph, dblock)

\* an equality bound that leaves the first nx rows at zero
GetLeq_NoState(x0, uMeas) ==
    LET d == INegVec(IMatVec(ssBv, uMeas))
    IN  MkVec(NS, LAMBDA k : IF k <= NZ THEN 0 ELSE d[((k - 1) % NZ) + 1])

\* leq as get computes it: -x0 in the first nx rows, zero in the rest of block
\* 0, -ssBv * uMeas in every later block
GetLeq(x0, uMeas) ==
    LET d == INegVec(IMatVec(ssBv, uMeas))
    IN  MkVec(NS, LAMBDA k :
            IF k <= dim.nx THEN -x0[k]
            ELSE IF k <= NZ THEN 0
            ELSE d[((k - 1) % NZ) + 1])

\* the inequality bound after get: the output rows of every step have
\* ssDv.block(0, 0, ny, ndu) * uMeas subtracted in place (-=)
ShiftOutputRows(b, uMeas) ==
    LET dd == IMatVec(Block(ssDv, 0, 0, dim.ny, dim.ndu), uMeas)
    IN  MkVec(Len(b), LAMBDA k :
            IF k > NS /\ k <= NS + NY
            THEN ExtSub(b[k], dd[((k - NS - 1) % dim.ny) + 1])
            ELSE b[k])

\* a get that starts the carried input of step 0 from the previous command
GetProblem_CarryU0(x0, u0, yRef, uRef, deltaURef, uMeas) ==
    /\ leq' = MkVec(NS, LAMBDA k :
                  IF k > dim.nx /\ k <= NZ THEN -u0[k - dim.nx]
                  ELSE GetLeq(x0, uMeas)[k])
    /\ ueq' = leq'
    /\ lineq' = ShiftOutputRows(lineq, uMeas)
    /\ uineq' = ShiftOutputRows(uineq, uMeas)
    /\ mpcProblem' = [mpcProblem EXCEPT !.q = GetQ(yRef, uRef, deltaURef, uMeas),
                                        !.l = FinVec(leq') \o lineq',
                                        !.u = FinVec(ueq') \o uineq']

\* what get writes: q, leq and ueq, the output rows of lineq and uineq, l and u;
\* the parameter u0 is unnamed in the source and never read
GetProblem(x0, u0, yRef, uRef, deltaURef, uMeas) ==
    /\ leq' = GetLeq(x0, uMeas)
    /\ ueq' = leq'
    /\ lineq' = ShiftOutputRows(lineq, uMeas)
    /\ uineq' = ShiftOutputRows(uineq, uMeas)
    /\ mpcProblem' = [mpcProblem EXCEPT !.q = GetQ(yRef, uRef, deltaURef, uMeas),
                                        !.l = FinVec(leq') \o lineq',
                                        !.u = FinVec(ueq') \o uineq']

\* ProblemBuilder::get (called by the optimizer once the builder is set up)
Builder_get(x0, u0, yRef, uRef, deltaURef, uMeas) ==
    /\ ~aborted /\ bInit
    /\ nCalls < MaxCalls
    /\ GetProblem(x0, u0, yRef, uRef, deltaURef, uMeas)
    /\ getArgs' = [x0 |-> x0, u0 |-> u0, yRef |-> yRef, uRef |-> uRef,
                   deltaURef |-> deltaURef, uMeas |-> uMeas]
    /\ nCalls' = nCalls + 1
    /\ UNCHANGED <<dim, aborted, bInit, modelVars, distVars, weightVars, boundVars,
                   ghostVars, mapVars, nlVars, lmVars>>

\* the ProblemBuilder before initialize(): nothing allocated
BuilderNew ==
    /\ bInit = FALSE
    /\ ssA = <<>> /\ ssB = <<>> /\ ssC = <<>> /\ ssBv = <<>> /\ ssDv = <<>>
    /\ wOutput = <<>> /\ wU = <<>> /\ wDeltaU = <<>>
    /\ minX = <<>> /\ maxX = <<>> /\ minY = <<>> /\ maxY = <<>>
    /\ minU = <<>> /\ maxU = <<>>
    /\ leq = <<>> /\ ueq = <<>> /\ lineq = <<>> /\ uineq = <<>>
    /\ mpcProblem = <<>>
    /\ getArgs = <<>> /\ modelArgs = <<>> /\ tiBuilt = FALSE /\ nCalls = 0

(* ---------------------------- NLOptimizer ----------------------------- *)
\* NLParameters(): the parameters a default-constructed parameter set holds
DefaultNLParameters ==
    [relative_ftol |-> <<1, 10>>, relative_xtol |-> <<1, 10>>,
     maximum_iteration |-> 100, hard_constraints |-> FALSE]

\* an lb that leaves the slack free whatever the parameters ask for
LowerBounds_AllFree(param) == MkVec(FlatLen, LAMBDA i : NegInf)

\* lb of setParameters: -inf everywhere, 0 for the slack under hard constraints
LowerBounds(param) ==
    MkVec(FlatLen, LAMBDA i :
        IF i = FlatLen /\ param.hard_constraints THEN Fin(0) ELSE NegInf)

\* ub of setParameters: +inf everywhere
UpperBounds == MkVec(FlatLen, LAMBDA i : PosInf)

\* the inner solver after setParameters(param)
Configured(opt, param) ==
    [opt EXCEPT !.ftol_rel = param.relative_ftol,
                !.maxeval = param.maximum_iteration,
                !.xtol_rel = param.relative_xtol,
                !.lb = LowerBounds(param),
                !.ub = UpperBounds]

\* new nlopt::opt(LD_SLSQP, ph*nx + nu*ch + 1): nothing configured, no objective
NewSolver ==
    [algorithm |-> "LD_SLSQP", n |-> FlatLen, objective |-> FALSE,
     ftol_rel |-> R(0), maxeval |-> 0, xtol_rel |-> R(0), lb |-> <<>>, ub |-> <<>>]

\* a stop of the NLOptimizer on checkOrQuit
NLGuardStop ==
    /\ aborted' = TRUE
    /\ UNCHANGED <<dim, mapVars, bldVars, nlVars, lmVars>>

\* NLOptimizer::onInit, reached through initialize(): it creates the solver and
\* calls setParameters(NLParameters()); the retcode and cost of last_r stay as
\* Result's construction leaves them
NL_onInit ==
    /\ ~aborted /\ ~nlInit
    /\ nlInit' = TRUE
    /\ innerOpt' = Configured(NewSolver, DefaultNLParameters)
    /\ lastParam' = DefaultNLParameters
    /\ last_r' = [cmd |-> MkVec(dim.nu, LAMBDA i : R(0)), retcode |-> 0, cost |-> R(0)]
    /\ currentSlack' = R(0)
    /\ goodCmd' = MkVec(dim.nu, LAMBDA i : R(0))
    /\ UNCHANGED <<dim, aborted, mapVars, bldVars, lmVars, runResult, optX0, runArgs,
                   escaped, goodSlack, failStreak, nRuns>>

\* NLOptimizer::setMapping(m) for an initialized m that holds the given scalings
\* (state scaling stored first, input scaling last): the member takes a copy
\* of m
NL_setMapping(inScaling, stScaling) ==
    /\ ~aborted
    /\ IF ~nlInit THEN NLGuardStop
       ELSE /\ mInit' = TRUE
            /\ input_scaling' = inScaling
            /\ state_scaling' = stScaling
            /\ inverse_state_scaling' = cwiseInverse(stScaling)
            /\ LET cm == computeMapping(inScaling)
               IN  /\ Iz2uMat' = cm[1] /\ Iu2zMat' = cm[2]
                   /\ Sz2uMat' = cm[3] /\ Su2zMat' = cm[4]
            /\ computeRan' = TRUE
            /\ UNCHANGED <<dim, aborted, uwArgs, Xmat, Umat, slack, bldVars, nlVars,
                           lmVars>>

\* NLOptimizer::setParameters
NL_setParameters(param) ==
    /\ ~aborted
    /\ IF ~nlInit THEN NLGuardStop
       ELSE /\ innerOpt' = Configured(innerOpt, param)
            /\ lastParam' = param
            /\ UNCHANGED <<dim, aborted, mapVars, bldVars, lmVars, nlInit, last_r,
                           currentSlack, runResult, optX0, runArgs, escaped, goodCmd,
                           goodSlack, failStreak, nRuns>>

\* NLOptimizer::bind: registers the objective with the inner solver
NL_bind ==
    /\ ~aborted
    /\ IF ~nlInit THEN NLGuardStop
       ELSE /\ innerOpt' = [innerOpt EXCEPT !.objective = TRUE]
            /\ UNCHANGED <<dim, aborted, mapVars, bldVars, lmVars, nlInit, lastParam, last_r,
                           currentSlack, runResult, optX0, runArgs, escaped, goodCmd,
                           goodSlack, failStreak, nRuns>>

\* a warm start that always restarts the slack from zero
WarmStart_ZeroSlack(x0, u0) ==
    LET UmvVectorized == MkVec(dim.ph * dim.nu, LAMBDA k : u0[((k - 1) % dim.nu) + 1])
    IN  MkVec(dim.ph * dim.nx, LAMBDA k : x0[((k - 1) % dim.nx) + 1])
            \o RMatVec(Iu2zMat, UmvVectorized)
            \o <<R(0)>>

\* optX0 of run: x0 in each of the ph state blocks, Iu2z applied to the ph
\* stacked copies of u0, then the last-known slack
WarmStart(x0, u0) ==
    LET UmvVectorized == MkVec(dim.ph * dim.nu, LAMBDA k : u0[((k - 1) % dim.nu) + 1])
    IN  MkVec(dim.ph * dim.nx, LAMBDA k : x0[((k - 1) % dim.nx) + 1])
            \o RMatVec(Iu2zMat, UmvVectorized)
            \o <<currentSlack>>

\* the exception types derived from std::exception
StdExceptions ==
    {"std::runtime_error", "std::invalid_argument", "std::bad_alloc",
     "nlopt::roundoff_limited", "nlopt::forced_stop"}

\* catch (const std::exception& e)
Caught(e) == e \in StdExceptions

\* return codes of a solve that returns
SuccessCodes == {1, 4}

\* what a Result that was never assigned holds as cost
IndeterminateCosts == {R(0), R(9)}

\* what a failing solve throws
SolverThrows == {"std::runtime_error"}

\* the ways innerOpt->optimize can end: it returns a solution, or it throws
SolverOutcomes ==
    {[ok |-> TRUE, x |-> x, retcode |-> c, cost |-> R(5), what |-> "none"] :
        x \in FlatVecs(FlatLen), c \in SuccessCodes}
    \cup
    {[ok |-> FALSE, x |-> <<>>, retcode |-> 0, cost |-> c, what |-> e] :
        c \in IndeterminateCosts, e \in SolverThrows}

\* a failure result that zeroes the command
FailureResult_ZeroCmd(cost) ==
    [cmd |-> MkVec(dim.nu, LAMBDA i : R(0)), retcode |-> -1, cost |-> cost]

\* r of the catch branch: the stored command, retcode -1, the cost never written
FailureResult(cost) ==
    [cmd |-> last_r.cmd, retcode |-> -1, cost |-> cost]

\* r of the try branch: cost and retcode of the solver, the first row of the
\* unwrapped input trajectory as command
SuccessResult(o) ==
    [cmd |-> UnwrapU(o.x)[1], retcode |-> o.retcode, cost |-> o.cost]

\* NLOptimizer::run
NL_run(x0, u0) ==
    /\ ~aborted /\ nRuns < MaxRuns
    /\ IF ~nlInit \/ ~mInit THEN NLGuardStop
       ELSE /\ optX0' = WarmStart(x0, u0)
            /\ runArgs' = [x0 |-> x0, u0 |-> u0]
            /\ nRuns' = nRuns + 1
            /\ \E o \in SolverOutcomes :
                  IF o.ok
                  THEN /\ runResult' = SuccessResult(o)
                       /\ last_r' = runResult'
                       /\ currentSlack' = o.x[FlatLen]
                       /\ goodCmd' = runResult'.cmd
                       /\ goodSlack' = o.x[FlatLen]
                       /\ failStreak' = 0
                       /\ escaped' = FALSE
                  ELSE IF Caught(o.what)
                  THEN /\ runResult' = FailureResult(o.cost)
                       /\ last_r' = runResult'
                       /\ failStreak' = failStreak + 1
                       /\ escaped' = FALSE
                       /\ UNCHANGED <<currentSlack, goodCmd, goodSlack>>
                  ELSE /\ escaped' = TRUE
                       /\ failStreak' = failStreak + 1
                       /\ UNCHANGED <<runResult, last_r, currentSlack, goodCmd, goodSlack>>
            /\ UNCHANGED <<dim, aborted, mapVars, bldVars, lmVars, nlInit, innerOpt,
                           lastParam>>

(* -------------------------------- LMPC -------------------------------- *)
\* An exception that leaves the front-end ends the behaviour that is followed:
\* the call that threw has changed nothing, so what the caller can do after
\* catching it is what it could do before the call.

\* a stop of the front-end on checkOrQuit
LMPCGuardStop ==
    /\ aborted' = TRUE
    /\ UNCHANGED <<dim, mapVars, bldVars, nlVars, lmVars>>

\* a rejection that reaches the throw only behind the initialization guard
ThrowRuntimeError_GuardFirst(what) ==
    /\ IF ~lInit THEN aborted' = TRUE /\ UNCHANGED raised
                  ELSE raised' = what /\ UNCHANGED aborted
    /\ UNCHANGED <<dim, mapVars, bldVars, nlVars, lInit, optPtr>>

\* throw std::runtime_error(what) as the first statement of a call: the
\* exception leaves the front-end and nothing has been touched
ThrowRuntimeError(what) ==
    /\ raised' = what
    /\ UNCHANGED <<dim, aborted, mapVars, bldVars, nlVars, lInit, optPtr>>

\* LMPC::setContinuosTimeModel: throws before anything else
LMPC_setContinuosTimeModel(ts) ==
    /\ ~aborted /\ raised = "none"
    /\ ThrowRuntimeError("Linear MPC supports only discrete time systems")

\* LMPC::setInputScale: throws before its checkOrQuit
LMPC_setInputScale(scaling) ==
    /\ ~aborted /\ raised = "none"
    /\ ThrowRuntimeError("Linear MPC does not support input scaling")

\* LMPC::setStateScale: throws before its checkOrQuit
LMPC_setStateScale(scaling) ==
    /\ ~aborted /\ raised = "none"
    /\ ThrowRuntimeError("Linear MPC does not support state scaling")

\* a replication that adds the step number to every column
Broadcast_Ramp(v, n) == MkVec(Len(v), LAMBDA i : MkVec(n, LAMBDA j : v[i] + j))

\* the vector v replicated into the n columns of a matrix
Broadcast(v, n) == MkVec(Len(v), LAMBDA i : MkVec(n, LAMBDA j : v[i]))

\* LMPC::onSetup: initializes the builder and creates the optimizer
LMPC_onSetup ==
    /\ ~aborted /\ raised = "none" /\ ~lInit
    /\ Builder_onInitBody
    /\ lInit' = TRUE
    /\ optPtr' = "LOptimizer"
    /\ UNCHANGED <<dim, aborted, raised, mapVars, nlVars>>

\* LMPC::setConstraints: the bounds replicated along the prediction horizon
LMPC_setConstraints(XMin, UMin, YMin, XMax, UMax, YMax) ==
    /\ ~aborted /\ raised = "none"
    /\ IF ~lInit THEN LMPCGuardStop
       ELSE Builder_setConstraints(
                Broadcast(XMin, dim.ph), Broadcast(UMin, dim.ph), Broadcast(YMin, dim.ph),
                Broadcast(XMax, dim.ph), Broadcast(UMax, dim.ph), Broadcast(YMax, dim.ph))

\* LMPC::setObjectiveWeights: the weights replicated along the prediction horizon
LMPC_setObjectiveWeights(OWeight, UWeight, DeltaUWeight) ==
    /\ ~aborted /\ raised = "none"
    /\ IF ~lInit THEN LMPCGuardStop
       ELSE Builder_setObjective(
                Broadcast(OWeight, dim.ph + 1), Broadcast(UWeight, dim.ph + 1),
                Broadcast(DeltaUWeight, dim.ph))

\* LMPC::setStateSpaceModel
LMPC_setStateSpaceModel(A, B, C) ==
    /\ ~aborted /\ raised = "none"
    /\ IF ~lInit THEN LMPCGuardStop
       ELSE Builder_setStateModel(A, B, C)

\* the matrices the names B and D denote inside LMPC::setDisturbances
ModuleLevelBD ==
    {<<MkVec(dim.nx, LAMBDA i : MkVec(dim.ndu, LAMBDA j : 2 * i)),
       MkVec(dim.ny, LAMBDA i : MkVec(dim.ndu, LAMBDA j : 2))>>}

\* LMPC::setDisturbances: forwards B and D, not its arguments Bd and Dd
LMPC_setDisturbances(Bd, Dd) ==
    /\ ~aborted /\ raised = "none"
    /\ IF ~lInit THEN LMPCGuardStop
       ELSE \E bd \in ModuleLevelBD : Builder_setExogenuosInput(bd[1], bd[2])

\* the step of the optimizer behind optPtr: it asks the builder for the problem
LOptimizer_run(x0, u0, yRef, uRef, deltaURef, uMeas) ==
    /\ raised = "none"
    /\ lInit /\ optPtr = "LOptimizer"
    /\ Builder_get(x0, u0, yRef, uRef, deltaURef, uMeas)

\* the NLOptimizer before initialize(): no solver, nothing run
NLNew ==
    /\ nlInit = FALSE
    /\ innerOpt = <<>> /\ lastParam = <<>> /\ last_r = <<>> /\ currentSlack = R(0)
    /\ runResult = <<>> /\ optX0 = <<>> /\ runArgs = <<>> /\ escaped = FALSE
    /\ goodCmd = <<>> /\ goodSlack = R(0) /\ failStreak = 0 /\ nRuns = 0

\* the LMPC before setup
LMPCNew ==
    /\ lInit = FALSE /\ optPtr = "unset" /\ raised = "none"

\* the Mapping before initialize(): nothing allocated
MappingNew ==
    /\ mInit = FALSE
    /\ input_scaling = <<>> /\ state_scaling = <<>> /\ inverse_state_scaling = <<>>
    /\ Iz2uMat = <<>> /\ Iu2zMat = <<>> /\ Sz2uMat = <<>> /\ Su2zMat = <<>>
    /\ computeRan = FALSE
    /\ uwArgs = <<>> /\ Xmat = <<>> /\ Umat = <<>> /\ slack = R(0)

InitMapping ==
    /\ dim \in ValidDims
    /\ aborted = FALSE
    /\ MappingNew
    /\ BuilderNew
    /\ NLNew
    /\ LMPCNew

NextMapping ==
    \/ Mapping_onInit
    \/ \E s \in ScalingVecs(dim.nu) : Mapping_setInputScaling(s)
    \/ \E s \in StateScalingVecs(dim.nx) : Mapping_setStateScaling(s)
    \/ \E x \in FlatVecs(FlatLen) \cup MismatchedFlatVecs, x0 \in StateVecs(dim.nx) :
            Mapping_unwrapVector(x, x0)

SpecMapping == InitMapping /\ [][NextMapping]_vars

(* ----------------------- ProblemBuilder: inputs ----------------------- *)
\* the builder is explored for the largest state dimension and one input, so
\* that the state and input blocks have different sizes
BuilderDims == {d \in ValidDims : d.nx = MaxN /\ d.nu = 1}

\* plant models <<A, B, C>>
ModelArgs ==
    {<<MkVec(dim.nx, LAMBDA i : MkVec(dim.nx, LAMBDA j : k * (i + (2 * j)))),
       MkVec(dim.nx, LAMBDA i : MkVec(dim.nu, LAMBDA j : k + i + j)),
       MkVec(dim.ny, LAMBDA i : MkVec(dim.nx, LAMBDA j : k + j))>> : k \in {1}}

\* disturbance matrices <<Bd, Dd>>
ExoArgs ==
    {<<MkVec(dim.nx, LAMBDA i : MkVec(dim.ndu, LAMBDA j : k * i)),
       MkVec(dim.ny, LAMBDA i : MkVec(dim.ndu, LAMBDA j : k))>> : k \in {1}}

\* per-step weights <<OWeight, UWeight, DeltaUWeight>>, different at every step
ObjArgs ==
    {<<MkVec(dim.ny, LAMBDA i : MkVec(dim.ph + 1, LAMBDA j : k + j)),
       MkVec(dim.nu, LAMBDA i : MkVec(dim.ph + 1, LAMBDA j : k)),
       MkVec(dim.nu, LAMBDA i : MkVec(dim.ph, LAMBDA j : (2 * k) + j))>> : k \in {1}}

\* per-step bounds <<XMin, UMin, YMin, XMax, UMax, YMax>>: strict boxes that
\* differ from step to step, and a box whose state bounds are equal
ConsArgs ==
    {<<MkVec(dim.nx, LAMBDA i : MkVec(dim.ph, LAMBDA j : -(i + j))),
       MkVec(dim.nu, LAMBDA i : MkVec(dim.ph, LAMBDA j : -(5 + j))),
       MkVec(dim.ny, LAMBDA i : MkVec(dim.ph, LAMBDA j : -(7 + j))),
       MkVec(dim.nx, LAMBDA i : MkVec(dim.ph, LAMBDA j : i + j)),
       MkVec(dim.nu, LAMBDA i : MkVec(dim.ph, LAMBDA j : 5 + j)),
       MkVec(dim.ny, LAMBDA i : MkVec(dim.ph, LAMBDA j : 7 + j))>>,
     <<MkVec(dim.nx, LAMBDA i : MkVec(dim.ph, LAMBDA j : i)),
       MkVec(dim.nu, LAMBDA i : MkVec(dim.ph, LAMBDA j : -2)),
       MkVec(dim.ny, LAMBDA i : MkVec(dim.ph, LAMBDA j : -3)),
       MkVec(dim.nx, LAMBDA i : MkVec(dim.ph, LAMBDA j : i)),
       MkVec(dim.nu, LAMBDA i : MkVec(dim.ph, LAMBDA j : 2)),
       MkVec(dim.ny, LAMBDA i : MkVec(dim.ph, LAMBDA j : 3))>>}

\* arguments of get
X0Args == {MkVec(dim.nx, LAMBDA i : i), MkVec(dim.nx, LAMBDA i : -(2 * i))}
U0Args == {MkVec(dim.nu, LAMBDA i : 1)}
RefArgs == {<<MkVec(dim.ny, LAMBDA i : 3), MkVec(dim.nu, LAMBDA i : 4), MkVec(dim.nu, LAMBDA i : 5)>>}
UMeasArgs == {MkVec(dim.ndu, LAMBDA i : v) : v \in {0, 1}}

InitBuilder ==
    /\ dim \in BuilderDims
    /\ aborted = FALSE
    /\ MappingNew
    /\ BuilderNew
    /\ NLNew
    /\ LMPCNew

NextBuilder ==
    \/ Builder_onInit
    \/ \E m \in ModelArgs : Builder_setStateModel(m[1], m[2], m[3])
    \/ \E e \in ExoArgs : Builder_setExogenuosInput(e[1], e[2])
    \/ \E o \in ObjArgs : Builder_setObjective(o[1], o[2], o[3])
    \/ \E c \in ConsArgs : Builder_setConstraints(c[1], c[2], c[3], c[4], c[5], c[6])
    \/ \E x0 \in X0Args, u0 \in U0Args, r \in RefArgs, d \in UMeasArgs :
            Builder_get(x0, u0, r[1], r[2], r[3], d)

SpecBuilder == InitBuilder /\ [][NextBuilder]_vars

(* ------------------------- NLOptimizer: inputs ------------------------ *)
\* the optimizer is explored for one state and the longest prediction horizon
NLDims == {d \in ValidDims : d.nx = 1 /\ d.ph = MaxPh}

\* scalings <<input, state>> of the mapping handed to setMapping
MappingArgs ==
    {<<ROnes(dim.nu), ROnes(dim.nx)>>,
     <<MkVec(dim.nu, LAMBDA i : <<i + 1, 5>>), MkVec(dim.nx, LAMBDA i : R(2))>>}

\* parameter sets handed to setParameters: tightened tolerances with hard
\* constraints, and a parameter set that holds the default values
ParamArgs ==
    {[relative_ftol |-> <<1, 100>>, relative_xtol |-> <<1, 100>>,
      maximum_iteration |-> 50, hard_constraints |-> h] : h \in {TRUE}}
    \cup {DefaultNLParameters}

InputVecs(n) == {MkVec(n, LAMBDA i : R(i))}

InitNL ==
    /\ dim \in NLDims
    /\ aborted = FALSE
    /\ MappingNew
    /\ BuilderNew
    /\ NLNew
    /\ LMPCNew

NextNL ==
    \/ NL_onInit
    \/ \E a \in MappingArgs : NL_setMapping(a[1], a[2])
    \/ \E p \in ParamArgs : NL_setParameters(p)
    \/ NL_bind
    \/ \E x0 \in StateVecs(dim.nx), u0 \in InputVecs(dim.nu) : NL_run(x0, u0)

SpecNL == InitNL /\ [][NextNL]_vars

(* ---------------------------- LMPC: inputs ---------------------------- *)
\* the front-end is explored with at least two prediction steps
LMPCDims == {d \in BuilderDims : d.ph > 1}

\* bound vectors <<XMin, UMin, YMin, XMax, UMax, YMax>>
ConsVecArgs ==
    {<<MkVec(dim.nx, LAMBDA i : -(k * i)), MkVec(dim.nu, LAMBDA i : -(4 + k)),
       MkVec(dim.ny, LAMBDA i : -(6 + k)),
       MkVec(dim.nx, LAMBDA i : k * i), MkVec(dim.nu, LAMBDA i : 4 + k),
       MkVec(dim.ny, LAMBDA i : 6 + k)>> : k \in {1, 2}}

\* weight vectors <<OWeight, UWeight, DeltaUWeight>>
ObjVecArgs ==
    {<<MkVec(dim.ny, LAMBDA i : 2), MkVec(dim.nu, LAMBDA i : 1),
       MkVec(dim.nu, LAMBDA i : 3)>>}

\* the measured state handed to a step
StepX0Args == {MkVec(dim.nx, LAMBDA i : i)}

\* sample times handed to setContinuosTimeModel
SampleTimes == {<<1, 10>>}

InitLMPC ==
    /\ dim \in LMPCDims
    /\ aborted = FALSE
    /\ MappingNew
    /\ BuilderNew
    /\ NLNew
    /\ LMPCNew

NextLMPC ==
    \/ LMPC_onSetup
    \/ \E c \in ConsVecArgs : LMPC_setConstraints(c[1], c[2], c[3], c[4], c[5], c[6])
    \/ \E o \in ObjVecArgs : LMPC_setObjectiveWeights(o[1], o[2], o[3])
    \/ \E m \in ModelArgs : LMPC_setStateSpaceModel(m[1], m[2], m[3])
    \/ \E e \in ExoArgs : LMPC_setDisturbances(e[1], e[2])
    \/ \E x0 \in StepX0Args, u0 \in U0Args, rf \in RefArgs, d \in UMeasArgs :
            LOptimizer_run(x0, u0, rf[1], rf[2], rf[3], d)
    \/ \E ts \in SampleTimes : LMPC_setContinuosTimeModel(ts)
    \/ \E sc \in ScalingVecs(dim.nu) : LMPC_setInputScale(sc)
    \/ \E sc \in ScalingVecs(dim.nx) : LMPC_setStateScale(sc)

SpecLMPC == InitLMPC /\ [][NextLMPC]_vars

(* ========================= properties: Mapping ======================== *)
\* m[j] as the specification states it
CountM(j) == IF j < dim.ch - 1 THEN 1 ELSE dim.ph - dim.ch + 1

RECURSIVE StartM(_)
\* number of row-blocks taken by the column-blocks before j
StartM(j) == IF j = 0 THEN 0 ELSE StartM(j - 1) + CountM(j - 1)

\* C4: once the Mapping is initialized, Iz2u is (ph*nu) x (ch*nu); each of its
\* nu x nu blocks is diag(input_scaling) or zero; column-block j holds exactly
\* m[j] consecutive non-zero row-blocks that start right after those of
\* column-block j-1 (m[j] = 1 for j < ch-1, m[ch-1] = ph-ch+1); the m[j] sum to
\* ph, so every row-block holds exactly one non-zero block.
C4_Iz2uBlockStructure ==
    mInit =>
        /\ Rows(Iz2uMat) = dim.ph * dim.nu
        /\ Cols(Iz2uMat) = dim.ch * dim.nu
        /\ StartM(dim.ch) = dim.ph
        /\ \A rb \in 0..(dim.ph - 1), cb \in 0..(dim.ch - 1) :
              Block(Iz2uMat, rb * dim.nu, cb * dim.nu, dim.nu, dim.nu)
                = IF StartM(cb) <= rb /\ rb < StartM(cb) + CountM(cb)
                  THEN Diag(input_scaling)
                  ELSE RZeros(dim.nu, dim.nu)
        /\ \A rb \in 0..(dim.ph - 1) :
              Cardinality({cb \in 0..(dim.ch - 1) :
                  Block(Iz2uMat, rb * dim.nu, cb * dim.nu, dim.nu, dim.nu)
                      # RZeros(dim.nu, dim.nu)}) = 1

\* an initialized Mapping with a held tail, several moves, two channels and a
\* per-channel scaling
C4_Witness ==
    /\ mInit /\ dim.ch > 1 /\ dim.ch < dim.ph /\ dim.nu = 2
    /\ input_scaling = MkVec(dim.nu, LAMBDA i : <<i + 1, 5>>)

\* control-horizon move k (0-based) of a flat vector
Move(x, k) == MiddleRows(x, (dim.ph * dim.nx) + (k * dim.nu), dim.nu)

\* C5: with identity input scaling, unwrapVector returns ph+1 input rows; row i
\* is move i for i < ch, rows ch-1..ph-1 are the last move, row ph repeats row
\* ph-1, and the slack is the last element of the flat vector.
C5_TailHold ==
    (/\ uwArgs # <<>> /\ uwArgs.input_scaling = ROnes(dim.nu)
     /\ Len(uwArgs.x) = FlatLen) =>
        /\ Rows(Umat) = dim.ph + 1
        /\ \A i \in 0..(dim.ph - 1) :
              /\ i < dim.ch => Umat[i + 1] = Move(uwArgs.x, i)
              /\ i >= dim.ch - 1 => Umat[i + 1] = Move(uwArgs.x, dim.ch - 1)
        /\ Umat[dim.ph + 1] = Umat[dim.ph]
        /\ slack = uwArgs.x[FlatLen]

\* an unwrap under identity input scaling with a held tail and two channels
C5_Witness ==
    /\ uwArgs # <<>> /\ uwArgs.input_scaling = ROnes(dim.nu)
    /\ Len(uwArgs.x) = FlatLen
    /\ dim.ch > 1 /\ dim.ch < dim.ph /\ dim.nu = 2 /\ dim.nx = 2
    /\ uwArgs.state_scaling # ROnes(dim.nx)

\* rows 1..ph of the state trajectory: block i-1 of the flat vector, each
\* column divided by the inverse state scaling of its channel
StateRowsDescaled ==
    \A i \in 1..dim.ph, j \in 1..dim.nx :
        Xmat[i + 1][j] = RDiv(uwArgs.x[(i - 1) * dim.nx + j],
                              RInv(uwArgs.state_scaling[j]))

\* C6: after unwrapVector, row 0 of the state trajectory equals x0
\* exactly and rows 1..ph are the descaled nx-blocks of the flat vector.
C6_Row0IsX0 ==
    uwArgs # <<>> => (Xmat[1] = uwArgs.x0 /\ StateRowsDescaled)

\* C10: a setter called before initialization stops on the guard and changes
\* nothing (stated here for the two setters of the Mapping).
C10_SettersGuarded ==
    [][(/\ ~mInit
        /\ \/ \E s \in ScalingVecs(dim.nu) : Mapping_setInputScaling(s)
           \/ \E s \in StateScalingVecs(dim.nx) : Mapping_setStateScaling(s))
       => (aborted' /\ UNCHANGED mapVars)]_vars

\* C11: unwrapVector called with a flat vector whose length differs from
\* ph*nx + ch*nu + 1 stops on a precondition violation and writes nothing to
\* the state trajectory, the input trajectory or the slack.
C11_LengthMismatchRejected ==
    [][\A x \in MismatchedFlatVecs, x0 \in StateVecs(dim.nx) :
          (mInit /\ Mapping_unwrapVector(x, x0))
              => (aborted' /\ UNCHANGED <<Xmat, Umat, slack>>)]_vars

\* the n x n identity over the rationals
RIdentity(n) == Diag(ROnes(n))

\* C16: when ch = ph and the input scaling is the identity, Iz2u is the
\* (ph*nu) x (ph*nu) identity and Iu2z equals the transpose of Iz2u.
C16_NoReductionIdentity ==
    (mInit /\ dim.ch = dim.ph /\ input_scaling = ROnes(dim.nu)) =>
        /\ Iz2uMat = RIdentity(dim.ph * dim.nu)
        /\ Iu2zMat = Transpose(Iz2uMat)

\* ch = ph over the longest horizon with two channels, the identity scaling
\* in force and an unwrap made under it
C16_Witness ==
    /\ mInit /\ dim.ch = dim.ph /\ dim.ph = MaxPh /\ dim.nu = 2
    /\ input_scaling = ROnes(dim.nu)
    /\ uwArgs # <<>> /\ Len(uwArgs.x) = FlatLen
    /\ Umat[dim.ph] = Move(uwArgs.x, dim.ph - 1)

\* nu x nu block (rb, cb) of a block matrix
NuBlock(M, rb, cb) == Block(M, rb * dim.nu, cb * dim.nu, dim.nu, dim.nu)

\* the stored mapping agrees with the stored scalings
ScalingConsistent ==
    /\ \A rb \in 0..(dim.ph - 1), cb \in 0..(dim.ch - 1) :
          /\ NuBlock(Iz2uMat, rb, cb)
                \in {RZeros(dim.nu, dim.nu), Diag(input_scaling)}
          /\ NuBlock(Iu2zMat, cb, rb)
                \in {RZeros(dim.nu, dim.nu),
                     Diag(MkVec(dim.nu, LAMBDA i : RInv(input_scaling[i])))}
    /\ Len(inverse_state_scaling) = dim.nx
    /\ \A j \in 1..dim.nx :
          RMul(state_scaling[j], inverse_state_scaling[j]) = R(1)

\* C22: after initialization, whatever setInputScaling and setStateScaling
\* calls with non-zero factors were made, every non-zero block of Iz2u is
\* diag(input_scaling), every non-zero block of Iu2z is diag(1/input_scaling),
\* the cached inverse state scaling is the element-wise inverse of the state
\* scaling, and the setter that stored the scalings in force recomputed the
\* mapping (both setters trigger the recomputation).
C22_MappingFollowsScaling ==
    mInit => (ScalingConsistent /\ computeRan)

\* matrix * matrix over the rationals
RMatMul(M, N) == MkVec(Rows(M), LAMBDA i : RMatVec(Transpose(N), M[i]))

\* control-horizon vectors with pairwise distinct entries
MoveVecs == {MkVec(dim.ch * dim.nu, LAMBDA k : R(a + k)) : a \in {0, 10}}

\* C25: for every non-zero input scaling Iu2z is a left inverse of Iz2u:
\* Iu2z * Iz2u is the (ch*nu) x (ch*nu) identity, so a control-horizon vector
\* mapped to the prediction horizon with Iz2u and back with Iu2z is returned
\* unchanged; row-block j of Iu2z holds exactly one non-zero nu x nu block, at
\* the first prediction step of move j.
C25_Iu2zLeftInverse ==
    mInit =>
        /\ Rows(Iu2zMat) = dim.ch * dim.nu
        /\ Cols(Iu2zMat) = dim.ph * dim.nu
        /\ RMatMul(Iu2zMat, Iz2uMat) = RIdentity(dim.ch * dim.nu)
        /\ \A z \in MoveVecs : RMatVec(Iu2zMat, RMatVec(Iz2uMat, z)) = z
        /\ \A cb \in 0..(dim.ch - 1), rb \in 0..(dim.ph - 1) :
              (NuBlock(Iu2zMat, cb, rb) # RZeros(dim.nu, dim.nu)) <=> (rb = StartM(cb))

\* a held tail, several moves, two channels and a per-channel scaling that is
\* not the identity
C25_Witness ==
    /\ mInit /\ dim.ch > 1 /\ dim.ch < dim.ph /\ dim.ph = MaxPh /\ dim.nu = 2
    /\ input_scaling = MkVec(dim.nu, LAMBDA i : <<i + 1, 5>>)
    /\ state_scaling # ROnes(dim.nx)

(* ====================== properties: ProblemBuilder ==================== *)
\* a step of ProblemBuilder::get with measured disturbance d
GetStep(d) ==
    \E x0 \in X0Args, u0 \in U0Args, r \in RefArgs :
        Builder_get(x0, u0, r[1], r[2], r[3], d)

\* the output-constraint rows of a bound of the problem, step by step
OutputRows(b) == MiddleRows(b, NS + NS, NY)

\* the stored output bound minus Dd * uMeas, step by step
ShiftedOutputBound(bY, d) ==
    LET dd == IMatVec(Block(ssDv, 0, 0, dim.ny, dim.ndu), d)
    IN  MkVec(NY, LAMBDA k :
            Fin(Vectorize(bY)[k] - dd[((k - 1) % dim.ny) + 1]))

\* C2: every get returns l and u whose output-constraint rows are the stored
\* Ymin / Ymax minus Dd * measuredDisturbance of that call, whatever get calls
\* were made before.
C2_OutputRowsFromCurrentCall ==
    [][\A d \in UMeasArgs :
          GetStep(d) =>
              /\ OutputRows(mpcProblem'.l) = ShiftedOutputBound(minY, d)
              /\ OutputRows(mpcProblem'.u) = ShiftedOutputBound(maxY, d)]_vars

\* a step of one of the setters, each of which ends in buildTITerms
SetterStep ==
    /\ bInit
    /\ \/ \E m \in ModelArgs : Builder_setStateModel(m[1], m[2], m[3])
       \/ \E e \in ExoArgs : Builder_setExogenuosInput(e[1], e[2])
       \/ \E o \in ObjArgs : Builder_setObjective(o[1], o[2], o[3])
       \/ \E c \in ConsArgs : Builder_setConstraints(c[1], c[2], c[3], c[4], c[5], c[6])

\* the rows of an inequality bound that belong to the increment of step i
RateRows(b, i) == MiddleRows(b, NS + NY + (i * dim.nu), dim.nu)

\* C3: after buildTITerms the increments of steps 0..ch-1 are free and the
\* increments of steps ch..ph-1 are forced to [0, 0].
C3_RateRowsPinnedFromCh ==
    [][SetterStep =>
          \A i \in 0..(dim.ph - 1), k \in 1..dim.nu :
              IF i < dim.ch
              THEN RateRows(lineq', i)[k] = NegInf /\ RateRows(uineq', i)[k] = PosInf
              ELSE RateRows(lineq', i)[k] = Fin(0) /\ RateRows(uineq', i)[k] = Fin(0)]_vars

\* C7: once get has been called, the equality rows of l and u (the first
\* (ph+1)*(nx+nu) rows) are element-wise identical and their first nx rows are
\* -x0 of the last get call.
C7_EqualityRows ==
    getArgs # <<>> =>
        /\ MiddleRows(mpcProblem.l, 0, NS) = MiddleRows(mpcProblem.u, 0, NS)
        /\ \A k \in 1..dim.nx :
              /\ mpcProblem.l[k] = Fin(-(getArgs.x0[k]))
              /\ mpcProblem.u[k] = Fin(-(getArgs.x0[k]))

\* a get with a non-zero measured disturbance acting on the states, made under
\* equal minimum and maximum state bounds
C7_Witness ==
    /\ getArgs # <<>> /\ dim.ph > 1
    /\ minX = maxX /\ minX # IZeros(dim.nx, dim.ph + 1)
    /\ \E k \in 1..dim.nx : getArgs.x0[k] # 0
    /\ IMatVec(ssBv, getArgs.uMeas) # IZeroVec(NZ)

\* C8: once setStateModel(A, B, C) has been called, whatever setters and get
\* calls follow, ssA = [A B; 0 I] and ssB = [B; I] for the last A and B given.
C8_AugmentedModel ==
    modelArgs # <<>> =>
        /\ Block(ssA, 0, 0, dim.nx, dim.nx) = modelArgs.A
        /\ Block(ssA, 0, dim.nx, dim.nx, dim.nu) = modelArgs.B
        /\ Block(ssA, dim.nx, 0, dim.nu, dim.nx) = IZeros(dim.nu, dim.nx)
        /\ Block(ssA, dim.nx, dim.nx, dim.nu, dim.nu) = Identity(dim.nu)
        /\ Block(ssB, 0, 0, dim.nx, dim.nu) = modelArgs.B
        /\ Block(ssB, dim.nx, 0, dim.nu, dim.nu) = Identity(dim.nu)

\* a model set and then followed by another setter and a get
C8_Witness ==
    /\ modelArgs # <<>> /\ getArgs # <<>>
    /\ ssDv # IZeros(dim.nu + dim.ny, dim.ndu)
    /\ dim.ph > 1

NonNegative(M) == \A i \in 1..Rows(M), j \in 1..Cols(M) : M[i][j] >= 0

Symmetric(M) == \A i \in 1..Rows(M), j \in 1..Rows(M) : M[i][j] = M[j][i]

\* M without its first row and without column j
Minor(M, j) ==
    MkVec(Rows(M) - 1, LAMBDA r : MkVec(Rows(M) - 1, LAMBDA c :
        M[r + 1][IF c < j THEN c ELSE c + 1]))

RECURSIVE Det(_)
\* determinant by expansion along the first row
Det(M) ==
    IF Rows(M) = 0 THEN 1
    ELSE IF Rows(M) = 1 THEN M[1][1]
    ELSE LET t(j) == IF M[1][j] = 0 THEN 0
                     ELSE (IF j % 2 = 1 THEN 1 ELSE -1) * M[1][j] * Det(Minor(M, j))
         IN  ISum(t, 1, Rows(M))

RECURSIVE SortedSeq(_)
\* the elements of a set of numbers in increasing order
SortedSeq(S) ==
    IF S = {} THEN <<>>
    ELSE LET m == CHOOSE x \in S : \A y \in S : x <= y
         IN  <<m>> \o SortedSeq(S \ {m})

\* the principal submatrix of M over the rows and columns idx
Principal(M, idx) ==
    MkVec(Len(idx), LAMBDA i : MkVec(Len(idx), LAMBDA j : M[idx[i]][idx[j]]))

\* a symmetric matrix is positive semi-definite iff all its principal minors
\* are non-negative
PosSemiDef(M) ==
    /\ Symmetric(M)
    /\ \A S \in SUBSET (1..Rows(M)) : Det(Principal(M, SortedSeq(S))) >= 0

\* the diagonal block of P that belongs to the augmented state of step i
StateBlock(P, i) == Block(P, i * NZ, i * NZ, NZ, NZ)

\* the diagonal block of P that belongs to the increment of step i
TailBlock(P, i) ==
    Block(P, NS + (i * dim.nu), NS + (i * dim.nu), dim.nu, dim.nu)

\* entry (r, c) of P lies in none of the per-step state blocks and in none of
\* the per-step tail blocks
OutsideBlocks(r, c, ns, nz, nu) ==
    IF r <= ns /\ c <= ns THEN (r - 1) \div nz # (c - 1) \div nz
    ELSE IF r > ns /\ c > ns
         THEN (r - ns - 1) \div nu # (c - ns - 1) \div nu
         ELSE TRUE

\* every entry of P outside the per-step blocks is zero
ZeroOutsideBlocks(P) ==
    LET ns == NS
        nz == NZ
        nu == dim.nu
    IN  \A r \in 1..Rows(P), c \in 1..Rows(P) :
            OutsideBlocks(r, c, ns, nz, nu) => P[r][c] = 0

\* C15: whenever the stored output, input and input-increment weights are all
\* non-negative, the P built by buildTITerms is symmetric and positive
\* semi-definite: it is symmetric, zero outside its diagonal blocks, and every
\* diagonal block has only non-negative principal minors.
C15_PSymmetricPSD ==
    (/\ tiBuilt
     /\ NonNegative(wOutput) /\ NonNegative(wU) /\ NonNegative(wDeltaU)) =>
        /\ Symmetric(mpcProblem.P)
        /\ ZeroOutsideBlocks(mpcProblem.P)
        /\ \A i \in 0..dim.ph : PosSemiDef(StateBlock(mpcProblem.P, i))
        /\ \A i \in 0..(dim.ph - 1) : PosSemiDef(TailBlock(mpcProblem.P, i))

\* a P built from a non-zero model and non-zero weights over the longest
\* horizon, with non-zero entries off the diagonal of a state block
C15_Witness ==
    /\ tiBuilt /\ modelArgs # <<>> /\ dim.ph = MaxPh
    /\ wOutput # IZeros(dim.ny, dim.ph + 1) /\ wDeltaU # IZeros(dim.nu, dim.ph)
    /\ mpcProblem.P[1][2] # 0
    /\ mpcProblem.P[NS + 1][NS + 1] # 0

\* C18: once a setter has run, and whatever setters and get calls follow, P
\* and A are what buildTITerms computes from the stored model and weights, and
\* the box rows and the rate rows of the inequality bounds are what it computes
\* from the stored bounds.
C18_NoStaleTerms ==
    tiBuilt =>
        /\ mpcProblem.P = BuildP(ssC, wOutput, wU, wDeltaU)
        /\ mpcProblem.A = BuildAeq(ssA, ssB) \o BuildAineq(ssC)
        /\ MiddleRows(lineq, 0, NS) = FinVec(ExtendedBound(minX, minU))
        /\ MiddleRows(uineq, 0, NS) = FinVec(ExtendedBound(maxX, maxU))
        /\ \A k \in 1..ND :
              /\ lineq[NS + NY + k] = RateBound((k - 1) \div dim.nu, NegInf)
              /\ uineq[NS + NY + k] = RateBound((k - 1) \div dim.nu, PosInf)

\* a model, weights and a step in one behaviour, the step made with a non-zero
\* disturbance feed-through so that it has moved the output rows of the bounds
C18_Witness ==
    /\ tiBuilt /\ modelArgs # <<>> /\ getArgs # <<>> /\ dim.ph > 1
    /\ wOutput # IZeros(dim.ny, dim.ph + 1)
    /\ nCalls = MaxCalls

\* C19: in the P built by buildTITerms the input-increment weight of step i is
\* the nu x nu diagonal tail block of step i for i < ch, the tail blocks of the
\* steps ch..ph-1 are zero, and P is zero outside the per-step blocks.
C19_IncrementWeightBelowCh ==
    tiBuilt =>
        /\ \A i \in 0..(dim.ph - 1) :
              TailBlock(mpcProblem.P, i)
                  = IF i < dim.ch THEN IDiag(Col(wDeltaU, i))
                                  ELSE IZeros(dim.nu, dim.nu)
        /\ ZeroOutsideBlocks(mpcProblem.P)

\* the augmented state of step i in a decision vector
StateOf(v, i) == MiddleRows(v, i * NZ, NZ)

\* the increment of step i in a decision vector
IncrementOf(v, i) == MiddleRows(v, NS + (i * dim.nu), dim.nu)

\* the decision vector starts in x0 and follows the augmented dynamics
FollowsDynamics(v, x0, d) ==
    /\ MiddleRows(v, 0, dim.nx) = x0
    /\ \A i \in 1..dim.ph :
          StateOf(v, i) = IAddVec(IAddVec(IMatVec(ssA, StateOf(v, i - 1)),
                                          IMatVec(ssB, IncrementOf(v, i - 1))),
                                  IMatVec(ssBv, d))

\* the decision vector satisfies the equality rows of the problem
SatisfiesEquality(prob, v) ==
    LET Av == FinVec(IMatVec(MiddleRows(prob.A, 0, NS), v))
    IN  /\ Av = MiddleRows(prob.l, 0, NS)
        /\ Av = MiddleRows(prob.u, 0, NS)

RECURSIVE RollOut(_, _, _, _)
\* the states z_i .. z_ph that follow from z_i = z under constant increments
RollOut(z, i, du, d) ==
    IF i >= dim.ph THEN z
    ELSE z \o RollOut(IAddVec(IAddVec(IMatVec(ssA, z), IMatVec(ssB, du)),
                              IMatVec(ssBv, d)), i + 1, du, d)

\* decision vectors to test: trajectories of the augmented dynamics from
\* [x0; carried input] under constant increments, and the same with the last
\* increment-free entry of the last state moved off the trajectory
DecisionVecs(x0, d) ==
    LET traj(c, e) ==
            RollOut(x0 \o MkVec(dim.nu, LAMBDA k : c), 0,
                    MkVec(dim.nu, LAMBDA k : e), d)
                \o MkVec(ND, LAMBDA k : e)
        off(v) == MkVec(Len(v), LAMBDA k : IF k = NS THEN v[k] + 1 ELSE v[k])
    IN  {traj(c, e) : c \in {0, 1}, e \in {0, 1}}
            \cup {off(traj(c, e)) : c \in {0, 1}, e \in {0, 1}}

\* the equality part of A, block by block: -I on the diagonal and ssA below it
\* in the state columns, ssB below the diagonal in the increment columns
EqualityStructure(A) ==
    /\ \A i \in 0..dim.ph, j \in 0..dim.ph :
          Block(A, i * NZ, j * NZ, NZ, NZ)
              = IF i = j THEN INeg(Identity(NZ))
                ELSE IF i = j + 1 THEN ssA ELSE IZeros(NZ, NZ)
    /\ \A i \in 0..dim.ph, j \in 0..(dim.ph - 1) :
          Block(A, i * NZ, NS + (j * dim.nu), NZ, dim.nu)
              = IF i = j + 1 THEN ssB ELSE IZeros(NZ, dim.nu)

\* C20: the equality rows of A and the equality bounds that get returns encode
\* the augmented dynamics: the equality part of A has the Kronecker structure
\* above, and a decision vector satisfies the equality rows exactly when its
\* first nx components are x0 and z_i = ssA*z_(i-1) + ssB*du_(i-1) + ssBv*d
\* for every i in 1..ph.
C20_EqualityEncodesDynamics ==
    [][\A x0 \in X0Args, d \in UMeasArgs :
          (/\ tiBuilt
           /\ \E u0 \in U0Args, r \in RefArgs :
                  Builder_get(x0, u0, r[1], r[2], r[3], d)) =>
              /\ EqualityStructure(mpcProblem'.A)
              /\ \A v \in DecisionVecs(x0, d) :
                    SatisfiesEquality(mpcProblem', v) <=> FollowsDynamics(v, x0, d)]_vars

\* entry k of the weighted reference error of step i: the weight of output or
\* input k times -([yRef; uRef] - ssDv * d)
WeightedError(i, k, yRef, uRef, d) ==
    LET w == IF k <= dim.ny THEN wOutput[k][i + 1] ELSE wU[k - dim.ny][i + 1]
        ref == IF k <= dim.ny THEN yRef[k] ELSE uRef[k - dim.ny]
        ft(c) == ssDv[k][c] * d[c]
    IN  w * (0 - (ref - ISum(ft, 1, dim.ndu)))

\* q as the claim states it, entry by entry
ExpectedQ(yRef, uRef, deltaURef, d) ==
    LET ns == NS
        nz == NZ
        nu == dim.nu
    IN  MkVec(NS + ND, LAMBDA r :
            IF r <= ns
            THEN LET i == (r - 1) \div nz
                     e == ((r - 1) % nz) + 1
                     t(k) == ssC[k][e] * WeightedError(i, k, yRef, uRef, d)
                 IN  ISum(t, 1, dim.ny + dim.nu)
            ELSE LET i == (r - ns - 1) \div nu
                     j == ((r - ns - 1) % nu) + 1
                 IN  -(wDeltaU[j][i + 1] * deltaURef[j]))

U0Alternatives == {MkVec(dim.nu, LAMBDA i : v) : v \in {0, 1, 2}}

\* rows nx .. nx+nu-1 (the carried input of step 0) of an equality bound
CarriedInputRows == (dim.nx + 1)..NZ

\* C24: the Problem get returns does not depend on the previous command u0:
\* the call made with any other u0 from the same state writes the same q, l
\* and u (and the same equality and inequality bounds), and rows nx..nx+nu-1 of
\* the equality bounds are 0, so the carried input of step 0 starts from zero
\* rather than from u0.
C24_IndependentOfU0 ==
    [][\A x0 \in X0Args, r \in RefArgs, d \in UMeasArgs :
          (\E u0 \in U0Args : Builder_get(x0, u0, r[1], r[2], r[3], d)) =>
              /\ \A other \in U0Alternatives :
                    GetProblem(x0, other, r[1], r[2], r[3], d)
              /\ \A k \in CarriedInputRows :
                    /\ leq'[k] = 0 /\ ueq'[k] = 0
                    /\ mpcProblem'.l[k] = Fin(0) /\ mpcProblem'.u[k] = Fin(0)]_vars

\* a get handed a non-zero previous command after the model was set
C24_Witness ==
    /\ getArgs # <<>> /\ getArgs.u0 # IZeroVec(dim.nu)
    /\ modelArgs # <<>> /\ ssB # IZeros(NZ, dim.nu)
    /\ \A k \in CarriedInputRows : mpcProblem.l[k] = Fin(0)
    /\ dim.ph > 1

(* ======================= properties: NLOptimizer ====================== *)
\* C1: every run whose solve throws returns to the caller without an
\* exception, with return code -1 and the command of the most recent
\* successful run (all zeros if none succeeded yet), also when several runs
\* fail in a row.
C1_FailureHoldsLastCommand ==
    (runResult # <<>> /\ failStreak > 0) =>
        /\ ~escaped
        /\ runResult.retcode = -1
        /\ runResult.cmd = goodCmd
        /\ last_r.cmd = goodCmd

\* two failed runs in a row after a successful run with a non-zero command
C1_Witness ==
    /\ runResult # <<>> /\ failStreak > 1
    /\ goodCmd # MkVec(dim.nu, LAMBDA i : R(0))
    /\ dim.nu = 2 /\ dim.ch < dim.ph

\* a step of NLOptimizer::run
RunStep ==
    \E x0 \in StateVecs(dim.nx), u0 \in InputVecs(dim.nu) : NL_run(x0, u0)

\* the optimizer is initialized and the objective is registered
Bound == nlInit /\ innerOpt.objective

\* C13: a run issued while the optimizer is Uninitialized, or Initialized but
\* not yet Bound, is rejected: it does not invoke the inner solver, so no warm
\* start is built, no run is counted and no result is produced or stored.
C13_RunOnlyWhenBound ==
    [][(RunStep /\ ~Bound) => UNCHANGED nlVars]_vars

C21_WarmStart ==
    [][(nRuns' # nRuns) =>
          /\ Len(optX0') = FlatLen
          /\ \A i \in 0..(dim.ph - 1), j \in 1..dim.nx :
                optX0'[(i * dim.nx) + j] = runArgs'.x0[j]
          /\ MiddleRows(optX0', dim.ph * dim.nx, dim.nu * dim.ch)
                = RMatVec(Iu2zMat, Stack(dim.ph, LAMBDA i : runArgs'.u0))
          /\ input_scaling = ROnes(dim.nu) =>
                \A i \in 0..(dim.ch - 1), j \in 1..dim.nu :
                    optX0'[(dim.ph * dim.nx) + (i * dim.nu) + j] = runArgs'.u0[j]
          /\ optX0'[FlatLen] = goodSlack
          /\ currentSlack' = goodSlack'
          /\ failStreak' > 0 => currentSlack' = currentSlack]_vars

\* a run made under a non-identity input scaling right after a failed run that
\* followed a successful one: its warm start carries the slack of the success
C21_Witness ==
    /\ nRuns > 2 /\ failStreak > 1
    /\ goodSlack # R(0) /\ optX0[FlatLen] = goodSlack
    /\ input_scaling # ROnes(dim.nu) /\ dim.nu = 2 /\ dim.ch > 1 /\ dim.ch < dim.ph

(* =========================== properties: LMPC ========================= *)
\* every column of M equals its first column
SameColumns(M) == \A j \in 1..Cols(M) : Col(M, j - 1) = Col(M, 0)

\* the n-row blocks 0..ph of b that start at row offset are all the same
SameBlocks(b, offset, n) ==
    \A i \in 0..dim.ph : MiddleRows(b, offset + (i * n), n) = MiddleRows(b, offset, n)

\* C9: with the constraints set through LMPC::setConstraints, the stored state
\* and output bounds have identical columns for the steps 0..ph, the stored
\* input bounds have identical columns, and in the assembled inequality bounds
\* every per-step block [Xbound; Ubound] and every per-step output bound is
\* the same for all ph+1 steps.
C9_BroadcastUniform ==
    lInit =>
        /\ SameColumns(minX) /\ SameColumns(maxX)
        /\ SameColumns(minY) /\ SameColumns(maxY)
        /\ SameColumns(minU) /\ SameColumns(maxU)
        /\ Cols(minX) = dim.ph + 1 /\ Cols(minY) = dim.ph + 1 /\ Cols(minU) = dim.ph
        /\ SameBlocks(lineq, 0, NZ) /\ SameBlocks(uineq, 0, NZ)
        /\ MiddleRows(lineq, 0, NZ) = FinVec(Col(minX, 0) \o Col(minU, 0))
        /\ MiddleRows(uineq, 0, NZ) = FinVec(Col(maxX, 0) \o Col(maxU, 0))
        /\ SameBlocks(lineq, NS, dim.ny) /\ SameBlocks(uineq, NS, dim.ny)
        /\ SameBlocks(mpcProblem.l, NS, NZ) /\ SameBlocks(mpcProblem.u, NS, NZ)
        /\ SameBlocks(mpcProblem.l, NS + NS, dim.ny)
        /\ SameBlocks(mpcProblem.u, NS + NS, dim.ny)

\* non-zero constraints set over the longest horizon, followed by a step with a
\* non-zero disturbance acting on the outputs
C9_Witness ==
    /\ lInit /\ dim.ph = MaxPh
    /\ minX # IZeros(dim.nx, dim.ph + 1) /\ minX # maxX
    /\ getArgs # <<>>
    /\ IMatVec(ssDv, getArgs.uMeas) # IZeroVec(dim.nu + dim.ny)
    /\ lineq[NS + 1] # Fin(minY[1][1])
\* a call of one of the setters the linear front-end does not support
UnsupportedCall ==
    \/ \E ts \in SampleTimes : LMPC_setContinuosTimeModel(ts)
    \/ \E sc \in ScalingVecs(dim.nu) : LMPC_setInputScale(sc)
    \/ \E sc \in ScalingVecs(dim.nx) : LMPC_setStateScale(sc)

\* C12: setContinuosTimeModel, setInputScale and setStateScale of the linear
\* front-end end in an exception in every controller state, before or after
\* setup, and leave the builder, the optimizer and all stored matrices
\* unchanged; they never return normally and never stop on the guard instead.
C12_UnsupportedCallsThrow ==
    [][UnsupportedCall =>
          /\ raised' # "none" /\ ~aborted'
          /\ UNCHANGED <<mapVars, bldVars, nlVars, lInit, optPtr>>]_vars

\* a scaling setter rejected after setup, a model and a step, and a
\* continuous-time model rejected before setup
C12_Witness ==
    \/ /\ raised = "Linear MPC does not support state scaling"
       /\ lInit /\ modelArgs # <<>> /\ getArgs # <<>>
    \/ /\ raised = "Linear MPC supports only discrete time systems"
       /\ ~lInit

\* C17: LMPC::setDisturbances(Bd, Dd) hands the supplied Bd and Dd to the
\* builder: afterwards the top nx rows of ssBv are Bd, the top ny rows of ssDv
\* are Dd, the remaining nu rows of both are zero and the time-invariant terms
\* have been rebuilt.
C17_DisturbancesForwarded ==
    [][\A e \in ExoArgs :
          (lInit /\ LMPC_setDisturbances(e[1], e[2])) =>
              /\ Block(ssBv', 0, 0, dim.nx, dim.ndu) = e[1]
              /\ Block(ssDv', 0, 0, dim.ny, dim.ndu) = e[2]
              /\ Block(ssBv', dim.nx, 0, dim.nu, dim.ndu) = IZeros(dim.nu, dim.ndu)
              /\ Block(ssDv', dim.ny, 0, dim.nu, dim.ndu) = IZeros(dim.nu, dim.ndu)
              /\ tiBuilt']_vars
====
